---- MODULE Spec2Model ----
(***************************************************************************)
(* Model of bpf/unwinders/pyperf.bpf.c: the perf-event entry program       *)
(* unwind_python_stack (P1) and the self-tail-calling frame walker         *)
(* walk_python_stack (P2), with the per-CPU State they share and the maps  *)
(* they read and write.                                                    *)
(*                                                                         *)
(* User memory is a process image described by a few parameters (chain     *)
(* length, one optional defect, ...); MemAt / StrAt give the word or the   *)
(* C string stored at an address, or a failed read for an unmapped one.    *)
(* A 64-bit frame encoding (lineno << 32) | symbol_id is kept as the pair  *)
(* <<lineno, symbol_id>> of its two 32-bit halves.                         *)
(***************************************************************************)
EXTENDS Integers, Sequences, FiniteSets, TLC

VARIABLES
    global_state,   \* the per-CPU State (BPF_MAP_TYPE_PERCPU_ARRAY, one entry)
    stack_traces,   \* shared map: stack hash -> stack
    heap,           \* per-CPU unwind_state_t: stack_key.interpreter_stack_id
    err_symbol,     \* per-CPU error_t: the message set by ERROR_MSG
    pc,             \* "idle", or "walker" while a tail call into the walker is pending
    ev,             \* the perf event in progress: ids, process image, helper outcomes
    out,            \* what the current event has emitted so far
    events,         \* number of perf events delivered
    other,          \* a second CPU: its global_state, heap, err_symbol, pc, ev,
                    \* out and events
    probe           \* a helper function run on its own: its input and result

vars == <<global_state, stack_traces, heap, err_symbol, pc, ev, out, events, other,
          probe>>

-----------------------------------------------------------------------------
(* Bounds of the model *)

MaxChain == 10      \* longest frame chain of a process image
MaxDefChain == 4    \* longest chain that carries a defect at any position
MaxEvents == 2      \* perf events per behaviour
HashSpace == 5      \* number of distinct values of the modelled stack hash

-----------------------------------------------------------------------------
(* Compile-time constants of pyperf.h *)

PYTHON_STACK_FRAMES_PER_PROG == 3
PYTHON_STACK_PROG_CNT == 3
MAX_STACK_DEPTH == PYTHON_STACK_FRAMES_PER_PROG * PYTHON_STACK_PROG_CNT
FRAME_OWNED_BY_CSTACK == 3
STACK_COMPLETE == 0
STACK_TRUNCATED == 1
LIBC_IMPLEMENTATION_GLIBC == 0
LIBC_IMPLEMENTATION_MUSL == 1

-----------------------------------------------------------------------------
(* The read-only maps, as the collaborators populate them *)

\* index 0: a layout with py_thread_state.frame and no owner tag (3.9-like);
\* index 1: a layout with cframe/current_frame and an owner tag (3.12-like).
version_specific_offsets ==
    (0 :> [py_thread_state |-> [frame |-> 3, cframe |-> -1, thread_id |-> 1],
           py_cframe |-> [current_frame |-> -1],
           py_frame_object |-> [f_back |-> 1, f_code |-> 2, f_localsplus |-> 5],
           py_interpreter_frame |-> [owner |-> -1],
           py_code_object |-> [co_varnames |-> 1, co_filename |-> 2, co_name |-> 3,
                               co_firstlineno |-> 4],
           py_tuple_object |-> [ob_item |-> 1],
           py_object |-> [ob_type |-> 1],
           py_type_object |-> [tp_name |-> 2],
           py_string |-> [data |-> 3]])
    @@
    (1 :> [py_thread_state |-> [frame |-> -1, cframe |-> 2, thread_id |-> 4],
           py_cframe |-> [current_frame |-> 0],
           py_frame_object |-> [f_back |-> 2, f_code |-> 0, f_localsplus |-> 6],
           py_interpreter_frame |-> [owner |-> 4],
           py_code_object |-> [co_varnames |-> 2, co_filename |-> 3, co_name |-> 4,
                               co_firstlineno |-> 1],
           py_tuple_object |-> [ob_item |-> 2],
           py_object |-> [ob_type |-> 1],
           py_type_object |-> [tp_name |-> 3],
           py_string |-> [data |-> 4]])

glibc_offsets ==
    (0 :> [pthread_size |-> 16, pthread_block |-> 2, pthread_key_data |-> 1,
           pthread_key_data_size |-> 2])

musl_offsets ==
    (0 :> [pthread_size |-> 8, pthread_block |-> 3, pthread_key_data |-> 0,
           pthread_key_data_size |-> 1])

\* Where things live in the modelled address space (0 is NULL).
Addr ==
    [tsa |-> 8, ts_direct |-> 16, ts_tls |-> 24, cframe |-> 40, tls_base |-> 64,
     musl_tsd |-> 88, frames |-> 100, codes |-> 300, varnames |-> 500,
     argname |-> 530, co_name |-> 560, co_filename |-> 590, local0 |-> 620,
     type |-> 650, tp_name |-> 680]

InterpreterInfo(tsa, tls, key, ver, libc, lidx) ==
    [thread_state_addr |-> tsa, use_tls |-> tls, tls_key |-> key,
     py_version_index |-> ver, libc_implementation |-> libc,
     libc_offset_index |-> lidx]

pid_to_interpreter_info ==
    (1 :> InterpreterInfo(Addr.tsa, FALSE, 0, 0, LIBC_IMPLEMENTATION_GLIBC, 0)) @@
    (2 :> InterpreterInfo(0, TRUE, 1, 1, LIBC_IMPLEMENTATION_GLIBC, 0)) @@
    (3 :> InterpreterInfo(0, TRUE, 2, 0, LIBC_IMPLEMENTATION_MUSL, 0)) @@
    (4 :> InterpreterInfo(Addr.tsa, TRUE, 1, 1, LIBC_IMPLEMENTATION_GLIBC, 0)) @@
    (5 :> InterpreterInfo(0, FALSE, 0, 0, LIBC_IMPLEMENTATION_GLIBC, 0)) @@
    (6 :> InterpreterInfo(0, TRUE, 1, 0, 2, 0)) @@
    (7 :> InterpreterInfo(Addr.tsa, FALSE, 0, 9, LIBC_IMPLEMENTATION_GLIBC, 0)) @@
    (8 :> InterpreterInfo(0, TRUE, 1, 0, LIBC_IMPLEMENTATION_GLIBC, 9))

ZeroInfo == InterpreterInfo(0, FALSE, 0, 0, 0, 0)

-----------------------------------------------------------------------------
(* The sampled process: its memory image *)

\* Build target of the object file (__TARGET_ARCH_x86 / __TARGET_ARCH_arm64).
TARGET_ARCH == "x86"

P1Defects ==
    {"none", "tsa_unreadable", "tsa_null", "tls_unreadable", "tls_null",
     "tid_unreadable", "frame_unreadable", "frame_null", "cframe_unreadable",
     "cframe_null", "musl_block_unreadable"}

DefKinds == {"cstack", "code_unreadable", "code_null", "back_unreadable"}

\* Defects of what read_symbol reads for a frame: the word at the named offset
\* is unreadable.
SymDefKinds ==
    {"sym_co_varnames", "sym_ob_item", "sym_f_localsplus", "sym_ob_type",
     "sym_tp_name", "sym_co_name", "sym_co_filename", "sym_co_firstlineno"}

\* F applied to the value of x, x being evaluated once.
With(x, F(_)) == CHOOSE r \in {F(v) : v \in {x}} : TRUE

Ok(v) == [ok |-> TRUE, val |-> v]
\* A failed probe read: the helper zeroes the destination.
Fault == [ok |-> FALSE, val |-> 0]

\* The Python version the process really runs, and its libc.
VerOf(pid) ==
    IF pid \in DOMAIN pid_to_interpreter_info
       /\ pid_to_interpreter_info[pid].py_version_index \in DOMAIN version_specific_offsets
    THEN pid_to_interpreter_info[pid].py_version_index
    ELSE 0

IsMusl(pid) ==
    /\ pid \in DOMAIN pid_to_interpreter_info
    /\ pid_to_interpreter_info[pid].libc_implementation = LIBC_IMPLEMENTATION_MUSL

KeyOf(pid) ==
    IF pid \in DOMAIN pid_to_interpreter_info
    THEN pid_to_interpreter_info[pid].tls_key ELSE 0

\* The thread pointer block the TLS base register leads to.
TlsBlock(libc) ==
    IF TARGET_ARCH = "x86" THEN Addr.tls_base + libc.pthread_block
    ELSE Addr.tls_base - libc.pthread_size + libc.pthread_block

\* Address of the pthread-key slot that holds this thread's PyThreadState*.
TlsSlot(pid) ==
    IF IsMusl(pid)
    THEN Addr.musl_tsd + KeyOf(pid) * musl_offsets[0].pthread_key_data_size
    ELSE TlsBlock(glibc_offsets[0])
         + KeyOf(pid) * glibc_offsets[0].pthread_key_data_size
         + glibc_offsets[0].pthread_key_data

FrameAddr(k) == Addr.frames + 8 * k
CodeAddr(k) == Addr.codes + 8 * k
\* Frame k runs a free function a(x), the method Foo.bar(self) or the
\* classmethod Baz.qux(cls), by k modulo 3.
Fn(k) == k % 3
Lineno(k) == 10 + k

Defect(e, k, kind) == e.dkind = kind /\ e.dpos = k

\* The defect sits in an object that the frames running function fn share
\* (the tuple of argument names, the first local, the type object).
SharedDefect(e, fn, kind) == e.dkind = kind /\ Fn(e.dpos) = fn

ThreadStateWord(e, O, off) ==
    IF off = O.thread_id
    THEN IF e.p1 = "tid_unreadable" THEN Fault ELSE Ok(7000 + e.tid)
    ELSE IF O.frame > -1 /\ off = O.frame
    THEN IF e.p1 = "frame_unreadable" THEN Fault
         ELSE IF e.p1 = "frame_null" THEN Ok(0) ELSE Ok(FrameAddr(1))
    ELSE IF O.cframe > -1 /\ off = O.cframe
    THEN IF e.p1 = "cframe_unreadable" THEN Fault
         ELSE IF e.p1 = "cframe_null" THEN Ok(0) ELSE Ok(Addr.cframe)
    ELSE Fault

FrameWord(e, O, k, off) ==
    IF off = O.py_frame_object.f_back
    THEN IF Defect(e, k, "back_unreadable") THEN Fault
         ELSE IF k < e.L THEN Ok(FrameAddr(k + 1))
         ELSE IF e.tail = 0 THEN Ok(0) ELSE Ok(FrameAddr(e.tail))
    ELSE IF off = O.py_frame_object.f_code
    THEN IF Defect(e, k, "code_unreadable") THEN Fault
         ELSE IF Defect(e, k, "code_null") THEN Ok(0) ELSE Ok(CodeAddr(k))
    ELSE IF O.py_interpreter_frame.owner # -1 /\ off = O.py_interpreter_frame.owner
    THEN IF Defect(e, k, "cstack") THEN Ok(FRAME_OWNED_BY_CSTACK) ELSE Ok(0)
    ELSE IF off = O.py_frame_object.f_localsplus
    THEN IF Defect(e, k, "sym_f_localsplus") THEN Fault
         ELSE IF Fn(k) = 2 THEN Ok(Addr.local0)
         ELSE IF Fn(k) = 0 THEN Ok(Addr.type) ELSE Ok(Addr.local0 + 8)
    ELSE Fault

CodeWord(e, O, k, off) ==
    IF off = O.co_varnames
    THEN IF Defect(e, k, "sym_co_varnames") THEN Fault
         ELSE Ok(Addr.varnames + 8 * Fn(k))
    ELSE IF off = O.co_filename
    THEN IF Defect(e, k, "sym_co_filename") THEN Fault ELSE Ok(Addr.co_filename)
    ELSE IF off = O.co_name
    THEN IF Defect(e, k, "sym_co_name") THEN Fault ELSE Ok(Addr.co_name + 8 * Fn(k))
    ELSE IF off = O.co_firstlineno
    THEN IF Defect(e, k, "sym_co_firstlineno") THEN Fault ELSE Ok(Lineno(k))
    ELSE Fault

\* The word stored at user address a of an image laid out by the offsets O, or
\* a fault when a is not mapped.
MemWord(e, O, a) ==
    IF a = Addr.tsa
    THEN IF e.p1 = "tsa_unreadable" THEN Fault
         ELSE IF e.p1 = "tsa_null" THEN Ok(0) ELSE Ok(Addr.ts_direct)
    ELSE IF IsMusl(e.pid) /\ a = TlsBlock(musl_offsets[0])
    THEN IF e.p1 = "musl_block_unreadable" THEN Fault ELSE Ok(Addr.musl_tsd)
    ELSE IF a = TlsSlot(e.pid)
    THEN IF e.p1 = "tls_unreadable" THEN Fault
         ELSE IF e.p1 = "tls_null" THEN Ok(0) ELSE Ok(Addr.ts_tls)
    ELSE IF a >= Addr.ts_direct /\ a < Addr.ts_direct + 8
    THEN ThreadStateWord(e, O.py_thread_state, a - Addr.ts_direct)
    ELSE IF a >= Addr.ts_tls /\ a < Addr.ts_tls + 8
    THEN ThreadStateWord(e, O.py_thread_state, a - Addr.ts_tls)
    ELSE IF O.py_cframe.current_frame > -1 /\ a = Addr.cframe + O.py_cframe.current_frame
    THEN IF e.p1 = "frame_unreadable" THEN Fault
         ELSE IF e.p1 = "frame_null" THEN Ok(0) ELSE Ok(FrameAddr(1))
    ELSE IF a >= FrameAddr(1) /\ a < FrameAddr(e.L + 1)
    THEN FrameWord(e, O, (a - Addr.frames) \div 8, (a - Addr.frames) % 8)
    ELSE IF a >= CodeAddr(1) /\ a < CodeAddr(e.L + 1)
    THEN CodeWord(e, O.py_code_object, (a - Addr.codes) \div 8, (a - Addr.codes) % 8)
    ELSE IF a >= Addr.varnames /\ a < Addr.varnames + 24
            /\ (a - Addr.varnames) % 8 = O.py_tuple_object.ob_item
    THEN IF SharedDefect(e, (a - Addr.varnames) \div 8, "sym_ob_item") THEN Fault
         ELSE Ok(Addr.argname + 8 * ((a - Addr.varnames) \div 8))
    ELSE IF a = Addr.local0 + O.py_object.ob_type
    THEN IF SharedDefect(e, 2, "sym_ob_type") THEN Fault ELSE Ok(Addr.type + 16)
    ELSE IF a >= Addr.type /\ a < Addr.type + 24
            /\ (a - Addr.type) % 8 = O.py_type_object.tp_name
    THEN IF SharedDefect(e, (a - Addr.type) \div 8, "sym_tp_name") THEN Fault
         ELSE Ok(Addr.tp_name + 8 * ((a - Addr.type) \div 8))
    ELSE Fault

MemAt(e, a) == MemWord(e, version_specific_offsets[VerOf(e.pid)], a)

\* The NUL-terminated string stored at user address a, d being the offset of
\* the characters in a string object.
StrWord(d, a) ==
    IF a = Addr.argname + d THEN Ok("cls")
    ELSE IF a = Addr.argname + 8 + d THEN Ok("x")
    ELSE IF a = Addr.argname + 16 + d THEN Ok("self")
    ELSE IF a = Addr.co_name + d THEN Ok("qux")
    ELSE IF a = Addr.co_name + 8 + d THEN Ok("a")
    ELSE IF a = Addr.co_name + 16 + d THEN Ok("bar")
    ELSE IF a = Addr.co_filename + d THEN Ok("app.py")
    ELSE IF a = Addr.tp_name THEN Ok("Baz")
    ELSE IF a = Addr.tp_name + 16 THEN Ok("Foo")
    ELSE [ok |-> FALSE, val |-> ""]

StrAt(e, a) == StrWord(version_specific_offsets[VerOf(e.pid)].py_string.data, a)

\* The probe helpers: [ok, val], val being zero / "" when the read fails.
bpf_probe_read_user(e, a) == With(a, LAMBDA addr : MemAt(e, addr))
bpf_probe_read_user_str(e, a) == With(a, LAMBDA addr : StrAt(e, addr))

-----------------------------------------------------------------------------
(* State, and what P1 does with it *)

ZeroFrame == <<0, 0>>

ZeroState ==
    [interpreter_info |-> ZeroInfo,
     thread_state |-> 0,
     current_pthread |-> 0,
     frame_ptr |-> 0,
     stack_walker_prog_call_count |-> 0,
     sample |-> [pid |-> 0, tid |-> 0, stack_status |-> 0,
                 stack |-> [len |-> 0,
                            addresses |-> [i \in 0..(MAX_STACK_DEPTH - 1) |-> ZeroFrame]]]]

\* Variant of ResetState: the memzero is missing.
ResetState_NoZero(s, info, pid, tid) ==
    [s EXCEPT !.interpreter_info = info,
              !.sample.tid = tid,
              !.sample.pid = pid,
              !.sample.stack_status = STACK_COMPLETE]

\* Variant of ResetState: the memzero spares the sample's stack.
ResetState_KeepStack(s, info, pid, tid) ==
    [ZeroState EXCEPT !.interpreter_info = info,
                      !.sample.tid = tid,
                      !.sample.pid = pid,
                      !.sample.stack_status = STACK_COMPLETE,
                      !.sample.stack = s.sample.stack]

\* bpf_large_memzero(state) and the stamping of the event's ids: nothing of
\* the old contents s survives.
ResetState(s, info, pid, tid) ==
    [ZeroState EXCEPT !.interpreter_info = info,
                      !.sample.tid = tid,
                      !.sample.pid = pid,
                      !.sample.stack_status = STACK_COMPLETE]

\* A step of P1 either goes on, or leaves through submit_without_unwinding
\* with the message ERROR_MSG has set, or returns 0 out of GET_OFFSETS().
Cont(s) == [state |-> s, msg |-> "", exit |-> "continue"]
Goto(s, m) == [state |-> s, msg |-> m, exit |-> "submit_without_unwinding"]

\* Variant of ArchBase: the arm64 build forgets to step back over the pthread
\* structure.
ArchBase_NoPthreadSize(arch, tls_base, lo) == tls_base

\* Lines 114-122 and 131-143: where the address arithmetic of tls_read starts,
\* by the architecture the object is built for.
ArchBase(arch, tls_base, lo) ==
    IF arch = "x86" THEN tls_base ELSE tls_base - lo.pthread_size

\* tls_read as built for arch, mem[a] being the outcome of the probe read of
\* user address a: [ret, set, val, reads], val being written to *out when set
\* and reads the addresses it has probed, in order.
tls_read_on(arch, mem, tls_base, info) ==
    LET key == info.tls_key
        fail(reads) == [ret |-> -1, set |-> FALSE, val |-> 0, reads |-> reads]
        final(tls_addr, before) ==
            With(mem[tls_addr], LAMBDA r :
                [ret |-> IF r.ok THEN 0 ELSE -1, set |-> TRUE, val |-> r.val,
                 reads |-> Append(before, tls_addr)])
        glibc_addr(lo) ==
            ArchBase(arch, tls_base, lo) + lo.pthread_block
            + (key * lo.pthread_key_data_size) + lo.pthread_key_data
        musl_slot(lo, block) ==
            With(mem[block], LAMBDA r :
                IF ~r.ok THEN fail(<<block>>)
                ELSE final(r.val + key * lo.pthread_key_data_size, <<block>>))
        musl(lo) == With(ArchBase(arch, tls_base, lo) + lo.pthread_block,
                         LAMBDA block : musl_slot(lo, block))
    IN
    IF info.libc_implementation = LIBC_IMPLEMENTATION_GLIBC
    THEN IF info.libc_offset_index \notin DOMAIN glibc_offsets THEN fail(<< >>)
         ELSE With(glibc_addr(glibc_offsets[info.libc_offset_index]),
                   LAMBDA tls_addr : final(tls_addr, << >>))
    ELSE IF info.libc_implementation = LIBC_IMPLEMENTATION_MUSL
    THEN IF info.libc_offset_index \notin DOMAIN musl_offsets THEN fail(<< >>)
         ELSE musl(musl_offsets[info.libc_offset_index])
    ELSE fail(<< >>)

\* tls_read of this build, on the user memory of the event's process.
tls_read(e, tls_base, info) ==
    tls_read_on(TARGET_ARCH, [a \in Int |-> bpf_probe_read_user(e, a)], tls_base, info)

\* Lines 210-219: the direct read of interpreter_info->thread_state_addr.
FetchThreadStateDirect(s, info, e) ==
    LET store(r) ==
            LET s1 == [s EXCEPT !.thread_state = r.val]
            IN IF ~r.ok THEN Goto(s1, "failed read of thread_state_addr") ELSE Cont(s1)
    IN IF info.thread_state_addr # 0
       THEN With(bpf_probe_read_user(e, info.thread_state_addr), store)
       ELSE Cont(s)

\* Lines 221-244: the TLS lookup, with the NULL check it contains.
FetchThreadStateTls(s, info, e) ==
    LET store(r) ==
            LET s1 == IF r.set THEN [s EXCEPT !.thread_state = r.val] ELSE s
            IN IF r.ret # 0 THEN Goto(s1, "failed read of TLS")
               ELSE IF s1.thread_state = 0 THEN Goto(s1, "thread_state was NULL")
               ELSE Cont(s1)
    IN IF info.use_tls
       THEN With(tls_read(e, Addr.tls_base, info), store)
       ELSE Cont(s)

\* Lines 250-259: pthread id of the thread state.
FetchThreadId(s, offsets, e) ==
    LET store(r) ==
            IF ~r.ok THEN Goto(s, "failed read of thread_state->thread_id")
            ELSE Cont([s EXCEPT !.current_pthread = r.val])
    IN With(bpf_probe_read_user(e, s.thread_state + offsets.py_thread_state.thread_id), store)

\* Variant of FetchTopFrame: the test of frame_ptr against NULL is missing.
FetchTopFrame_NoNullCheck(s, offsets, e) ==
    LET viaFrame(r) ==
            LET s1 == [s EXCEPT !.frame_ptr = r.val]
            IN IF ~r.ok THEN Goto(s1, "failed read of thread_state->frame") ELSE Cont(s1)
        currentFrame(r) == Cont([s EXCEPT !.frame_ptr = r.val])
        viaCframe(c) ==
            IF ~c.ok THEN Goto(s, "failed read of thread_state->cframe")
            ELSE IF c.val = 0 THEN Goto(s, "cframe was NULL")
            ELSE With(bpf_probe_read_user(e, c.val + offsets.py_cframe.current_frame),
                      currentFrame)
    IN IF offsets.py_thread_state.frame > -1
       THEN With(bpf_probe_read_user(e, s.thread_state + offsets.py_thread_state.frame),
                 viaFrame)
       ELSE With(bpf_probe_read_user(e, s.thread_state + offsets.py_thread_state.cframe),
                 viaCframe)

\* Lines 263-292: the top frame, directly or through the cframe.
FetchTopFrame(s, offsets, e) ==
    LET viaFrame(r) ==
            LET s1 == [s EXCEPT !.frame_ptr = r.val]
            IN IF ~r.ok THEN Goto(s1, "failed read of thread_state->frame") ELSE Cont(s1)
        currentFrame(r) == Cont([s EXCEPT !.frame_ptr = r.val])
        viaCframe(c) ==
            IF ~c.ok THEN Goto(s, "failed read of thread_state->cframe")
            ELSE IF c.val = 0 THEN Goto(s, "cframe was NULL")
            ELSE With(bpf_probe_read_user(e, c.val + offsets.py_cframe.current_frame),
                      currentFrame)
        check(got) ==
            IF got.exit # "continue" THEN got
            ELSE IF got.state.frame_ptr = 0 THEN Goto(got.state, "frame_ptr was NULL")
            ELSE got
    IN IF offsets.py_thread_state.frame > -1
       THEN With(With(bpf_probe_read_user(e, s.thread_state + offsets.py_thread_state.frame),
                      viaFrame), check)
       ELSE With(With(bpf_probe_read_user(e, s.thread_state + offsets.py_thread_state.cframe),
                      viaCframe), check)

\* unwind_python_stack from the reset of State on (lines 195-295), up to the
\* tail call: [state, msg, exit], exit "continue" meaning the tail call is reached.
ResolveTopFrame(s, info, e) ==
    LET afterThreadId(r3, offsets) ==
            IF r3.exit # "continue" THEN r3 ELSE FetchTopFrame(r3.state, offsets, e)
        withOffsets(st, offsets) ==
            With(FetchThreadId(st, offsets, e), LAMBDA r3 : afterThreadId(r3, offsets))
        afterTls(r2) ==
            IF r2.exit # "continue" THEN r2
            ELSE IF r2.state.interpreter_info.py_version_index
                        \notin DOMAIN version_specific_offsets
            THEN [state |-> r2.state, msg |-> "", exit |-> "return"]
            ELSE withOffsets(r2.state,
                             version_specific_offsets[r2.state.interpreter_info.py_version_index])
        afterDirect(r1) ==
            IF r1.exit = "continue"
            THEN With(FetchThreadStateTls(r1.state, info, e), afterTls)
            ELSE r1
    IN With(ResetState(s, info, e.pid, e.tid),
            LAMBDA s0 : With(FetchThreadStateDirect(s0, info, e), afterDirect))

-----------------------------------------------------------------------------
(* Symbols, frame encodings and the stack hash *)

EmptySymbol == [class_name |-> "", method_name |-> "", path |-> ""]

\* reset_symbol: all three strings empty.
reset_symbol(sym) == EmptySymbol

\* The first four bytes of a buffer that holds str, as the s32 comparison sees
\* them: the whole string when it has at most three characters and its NUL.
FirstFourBytes(str) == IF str = "app.py" THEN "app." ELSE str

\* Variant of read_symbol: when the name of the code object cannot be read,
\* method_name keeps the name of the first argument that was parked in it.
read_symbol_ArgNameStays(offsets, cur_frame, code_ptr, e) ==
    LET Word(a) == bpf_probe_read_user(e, a).val
        Str(a) == bpf_probe_read_user_str(e, a)
        first_arg ==
            Str(Word(Word(code_ptr + offsets.py_code_object.co_varnames)
                     + offsets.py_tuple_object.ob_item)
                + offsets.py_string.data).val
        class_name(first) ==
            LET first_self == FirstFourBytes(first) = "self"
                first_cls == FirstFourBytes(first) = "cls"
                ptr(ptr1) ==
                    IF first_self THEN Word(ptr1 + offsets.py_object.ob_type) ELSE ptr1
            IN IF first_self \/ first_cls
               THEN Str(Word(With(Word(cur_frame + offsets.py_frame_object.f_localsplus), ptr)
                             + offsets.py_type_object.tp_name)).val
               ELSE ""
        path ==
            Str(Word(code_ptr + offsets.py_code_object.co_filename)
                + offsets.py_string.data).val
        method_name(first) ==
            With(Str(Word(code_ptr + offsets.py_code_object.co_name)
                     + offsets.py_string.data),
                 LAMBDA r : IF r.ok THEN r.val ELSE first)
        lineno == Word(code_ptr + offsets.py_code_object.co_firstlineno)
    IN With(first_arg, LAMBDA first :
            [sym |-> [class_name |-> class_name(first),
                      method_name |-> method_name(first),
                      path |-> path],
             lineno |-> lineno])

\* read_symbol: every read is unchecked; a failed one leaves zero / "".
read_symbol(offsets, cur_frame, code_ptr, e) ==
    LET Word(a) == bpf_probe_read_user(e, a).val
        Str(a) == bpf_probe_read_user_str(e, a).val
        first_arg ==
            Str(Word(Word(code_ptr + offsets.py_code_object.co_varnames)
                     + offsets.py_tuple_object.ob_item)
                + offsets.py_string.data)
        class_name(first) ==
            LET first_self == FirstFourBytes(first) = "self"
                first_cls == FirstFourBytes(first) = "cls"
                ptr(ptr1) ==
                    IF first_self THEN Word(ptr1 + offsets.py_object.ob_type) ELSE ptr1
            IN IF first_self \/ first_cls
               THEN Str(Word(With(Word(cur_frame + offsets.py_frame_object.f_localsplus), ptr)
                             + offsets.py_type_object.tp_name))
               ELSE ""
        path ==
            Str(Word(code_ptr + offsets.py_code_object.co_filename) + offsets.py_string.data)
        method_name ==
            Str(Word(code_ptr + offsets.py_code_object.co_name) + offsets.py_string.data)
        lineno == Word(code_ptr + offsets.py_code_object.co_firstlineno)
    IN [sym |-> [class_name |-> With(first_arg, class_name),
                 method_name |-> method_name,
                 path |-> path],
        lineno |-> lineno]

StrCode ==
    ("" :> 0) @@ ("x" :> 1) @@ ("self" :> 2) @@ ("cls" :> 3) @@ ("a" :> 4) @@
    ("bar" :> 5) @@ ("qux" :> 6) @@ ("app.py" :> 7) @@ ("Foo" :> 8) @@ ("Baz" :> 9)

\* The interning collaborator: a stable non-zero 32-bit id per symbol record.
get_symbol_id(sym) ==
    1 + 100 * StrCode[sym.class_name] + 10 * StrCode[sym.method_name] + StrCode[sym.path]

\* (lineno << 32) | symbol_id, as the pair of its halves.
EncodeFrame(lineno, symbol_id) == <<lineno, symbol_id>>

RECURSIVE HashSum(_, _)
HashSum(stack, i) ==
    IF i >= stack.len THEN 0
    ELSE (i + 1) * (stack.addresses[i][1] + stack.addresses[i][2]) + HashSum(stack, i + 1)

\* hash_stack: a deterministic hash of the length and the first len entries.
hash_stack(stack) == (stack.len + HashSum(stack, 0)) % HashSpace

-----------------------------------------------------------------------------
(* The frame walker *)

\* Variant of AppendFrame: the length is advanced a second time.
AppendFrame_LenTwice(stack, frame) ==
    LET cur_len == stack.len IN
    IF cur_len >= 0 /\ cur_len < MAX_STACK_DEPTH
    THEN [len |-> cur_len + 2, addresses |-> [stack.addresses EXCEPT ![cur_len] = frame]]
    ELSE stack

\* Variant of AppendFrame: the entry is written to the first slot.
AppendFrame_FirstSlot(stack, frame) ==
    LET cur_len == stack.len IN
    IF cur_len >= 0 /\ cur_len < MAX_STACK_DEPTH
    THEN [len |-> cur_len + 1, addresses |-> [stack.addresses EXCEPT ![0] = frame]]
    ELSE stack

\* Lines 423-428: the bounded append.
AppendFrame(stack, frame) ==
    LET cur_len == stack.len IN
    IF cur_len >= 0 /\ cur_len < MAX_STACK_DEPTH
    THEN [len |-> cur_len + 1, addresses |-> [stack.addresses EXCEPT ![cur_len] = frame]]
    ELSE stack

\* Variant of SkipCStackFrame: the owner tag is not looked at.
SkipCStackFrame_Never(offsets, curr_frame_ptr, e) == curr_frame_ptr

\* Lines 384-393: a frame owned by the C stack is left by following f_back once.
SkipCStackFrame(offsets, curr_frame_ptr, e) ==
    IF offsets.py_interpreter_frame.owner # -1
    THEN LET owner == bpf_probe_read_user(e, curr_frame_ptr
                                             + offsets.py_interpreter_frame.owner).val
         IN IF owner = FRAME_OWNED_BY_CSTACK
            THEN bpf_probe_read_user(e, curr_frame_ptr + offsets.py_frame_object.f_back).val
            ELSE curr_frame_ptr
    ELSE curr_frame_ptr

\* Variant of LoopBound: the loop stops one iteration early.
LoopBound_OneShort == PYTHON_STACK_FRAMES_PER_PROG - 1

\* Line 377: the iterations of the unrolled loop.
LoopBound == PYTHON_STACK_FRAMES_PER_PROG

\* Lines 377-436: the loop from iteration i on. how = "complete" is the jump to
\* the complete label, "fallthrough" a break or the end of the loop.
RECURSIVE WalkFrames(_, _, _, _)
WalkFrames(s, offsets, e, i) ==
    LET stop == [state |-> s, how |-> "fallthrough"]
        next(t) ==
            IF t.frame_ptr = 0 THEN [state |-> t, how |-> "complete"]
            ELSE WalkFrames(t, offsets, e, i + 1)
        append(curr_frame_ptr, rs) ==
            [s EXCEPT
               !.sample.stack = AppendFrame(@, EncodeFrame(rs.lineno, get_symbol_id(rs.sym))),
               !.frame_ptr = bpf_probe_read_user(e, curr_frame_ptr
                                                    + offsets.py_frame_object.f_back).val]
        symbolize(curr_frame_ptr, code) ==
            IF ~code.ok \/ code.val = 0 THEN stop
            ELSE With(read_symbol(offsets, curr_frame_ptr, code.val, e),
                      LAMBDA rs : With(append(curr_frame_ptr, rs), next))
        frame(curr_frame_ptr) ==
            IF curr_frame_ptr = 0 THEN stop
            ELSE With(bpf_probe_read_user(e, curr_frame_ptr + offsets.py_frame_object.f_code),
                      LAMBDA code : symbolize(curr_frame_ptr, code))
    IN IF i >= LoopBound THEN stop
       ELSE IF s.frame_ptr = 0 THEN stop
       ELSE With(SkipCStackFrame(offsets, s.frame_ptr, e), frame)

\* Line 372.
CountCall(s) ==
    [s EXCEPT !.stack_walker_prog_call_count = @ + 1]

\* Variant of BudgetLeft: an off-by-one comparison.
BudgetLeft_Inclusive(s) == s.stack_walker_prog_call_count <= PYTHON_STACK_PROG_CNT

\* Line 440: the walker goes on while the tail-call budget is not spent.
BudgetLeft(s) == s.stack_walker_prog_call_count < PYTHON_STACK_PROG_CNT

\* bpf_tail_call succeeds unless the environment makes the n-th one of the
\* event fail (n = 0 is P1's, n >= 1 the n-th walker invocation's).
TailCallOk(e, n) == e.tc_fail # n

\* walk_python_stack up to the submit label: [state, exit], exit being
\* "return" (GET_OFFSETS), "tail_call", or the way submit is reached:
\* "complete", "truncated" or "tail_call_failed" (the goto after bpf_tail_call).
walk_python_stack(s, e) ==
    IF s.interpreter_info.py_version_index \notin DOMAIN version_specific_offsets
    THEN [state |-> s, exit |-> "return"]
    ELSE LET offsets == version_specific_offsets[s.interpreter_info.py_version_index]
             AfterLoop(w) ==
                 IF w.how = "complete"
                 THEN [state |-> [w.state EXCEPT !.sample.stack_status = STACK_COMPLETE],
                       exit |-> "complete"]
                 ELSE IF BudgetLeft(w.state)
                 THEN IF TailCallOk(e, w.state.stack_walker_prog_call_count)
                      THEN [state |-> w.state, exit |-> "tail_call"]
                      ELSE [state |-> w.state, exit |-> "tail_call_failed"]
                 ELSE [state |-> [w.state EXCEPT !.sample.stack_status = STACK_TRUNCATED],
                       exit |-> "truncated"]
         IN With(CountCall(s),
                 LAMBDA s1 : With(WalkFrames(s1, offsets, e, 0), AfterLoop))

-----------------------------------------------------------------------------
(* Perf events *)

Event(pid, tid, p1, L, tail, dpos, dkind, tc, mf) ==
    [pid |-> pid, tid |-> tid, p1 |-> p1, L |-> L, tail |-> tail, dpos |-> dpos,
     dkind |-> dkind, tc_fail |-> tc, map_fail |-> mf]

\* No tail call of the event fails.
NoTailCallFails == -1

\* Frame chains: sound ones of every length, ones that loop back to the top
\* frame, and ones with a defect at one frame.
ChainShapes ==
    {<<L, 0, 0, "none">> : L \in 1..MaxChain}
    \cup {<<L, 1, 0, "none">> : L \in 1..2}
    \cup {<<L, 0, p, k>> : L \in 1..MaxDefChain, p \in 1..MaxDefChain, k \in DefKinds}
    \cup {<<MaxChain, 0, p, "cstack">> : p \in (MaxDefChain + 1)..MaxChain}

\* Processes whose chains are walked in all their shapes: one per layout.
WalkPids == {1, 2}

Pids == 0..9

Tid(pid) == 10 * pid + 1

\* What the helpers of a walk do: <<the tail call that fails, whether the
\* update of stack_traces fails>>.
WalkHelperOutcomes ==
    {<<NoTailCallFails, FALSE>>, <<NoTailCallFails, TRUE>>}
    \cup {<<n, FALSE>> : n \in 1..(PYTHON_STACK_PROG_CNT - 1)}

\* Events that exercise the walker, and events that exercise P1's paths.
WalkEvents ==
    {Event(pid, Tid(pid), "none", c[1], c[2], c[3], c[4], h[1], h[2]) :
        pid \in WalkPids,
        c \in {x \in ChainShapes : x[3] <= x[1]},
        h \in WalkHelperOutcomes}

EntryEvents ==
    {Event(pid, Tid(pid), p1, 2, 0, 0, "none", NoTailCallFails, FALSE) :
        pid \in Pids, p1 \in P1Defects}
    \cup {Event(pid, Tid(pid) + 1, "none", 2, 0, 0, "none", tc, FALSE) :
        pid \in Pids, tc \in {NoTailCallFails, 0}}

Events == WalkEvents \cup EntryEvents

NoEvent == Event(0, 0, "none", 1, 0, 0, "none", NoTailCallFails, FALSE)

\* What an event has emitted: calls of aggregate_stacks(), the message of an
\* ERROR_SAMPLE, calls of bpf_map_update_elem on stack_traces, whether P1
\* tail-called the walker, how often the walker ran, and whether a
\* bpf_tail_call of the event failed.
NoOutput ==
    [aggregate_stacks |-> 0, error_sample |-> "", updates |-> 0,
     handed_off |-> FALSE, walker_runs |-> 0, tail_call_failed |-> FALSE]

-----------------------------------------------------------------------------
(* The two programs *)

\* No helper function is run on its own.
NoProbe == [done |-> TRUE, in |-> << >>, res |-> << >>]

\* The per-CPU data of a CPU on which no perf event has fired yet.
IdleCpu ==
    [global_state |-> ZeroState, heap |-> [interpreter_stack_id |-> 0],
     err_symbol |-> "", pc |-> "idle", ev |-> NoEvent, out |-> NoOutput,
     events |-> 0]

Init ==
    /\ global_state = ZeroState
    /\ stack_traces = << >>
    /\ heap = [interpreter_stack_id |-> 0]
    /\ err_symbol = ""
    /\ pc = "idle"
    /\ ev = NoEvent
    /\ out = NoOutput
    /\ events = 0
    /\ other = IdleCpu
    /\ probe = NoProbe

\* Variant of MissingInterpreterInfo: State is fetched and reset before the
\* lookup of the interpreter info.
MissingInterpreterInfo_ResetFirst(s) ==
    [state |-> ZeroState, err |-> "interpreter_info was NULL",
     emitted |-> [NoOutput EXCEPT !.error_sample = "interpreter_info was NULL"],
     next |-> "idle"]

\* Lines 186-190 and 302-304: no interpreter info for the pid. The message is
\* set and the error sample emitted; State is not touched.
MissingInterpreterInfo(s) ==
    [state |-> s, err |-> "interpreter_info was NULL",
     emitted |-> [NoOutput EXCEPT !.error_sample = "interpreter_info was NULL"],
     next |-> "idle"]

\* What unwind_python_stack leaves behind: [state, err, emitted, next].
unwind_python_stack(s, err, e) ==
    LET leave(r) ==
            IF r.exit = "return"
            THEN [state |-> r.state, err |-> err, emitted |-> NoOutput, next |-> "idle"]
            ELSE IF r.exit = "submit_without_unwinding"
            THEN [state |-> r.state, err |-> r.msg,
                  emitted |-> [NoOutput EXCEPT !.aggregate_stacks = 1], next |-> "idle"]
            ELSE IF TailCallOk(e, 0)
            THEN [state |-> r.state, err |-> err,
                  emitted |-> [NoOutput EXCEPT !.handed_off = TRUE], next |-> "walker"]
            ELSE [state |-> r.state, err |-> err,
                  emitted |-> [NoOutput EXCEPT !.aggregate_stacks = 1,
                                               !.tail_call_failed = TRUE],
                  next |-> "idle"]
    IN IF e.pid = 0
       THEN [state |-> s, err |-> err, emitted |-> NoOutput, next |-> "idle"]
       ELSE IF e.pid \notin DOMAIN pid_to_interpreter_info
       THEN MissingInterpreterInfo(s)
       ELSE With(ResolveTopFrame(s, pid_to_interpreter_info[e.pid], e), leave)

\* A perf event fires on the CPU and P1 runs to its end.
PerfEvent(e) ==
    /\ pc = "idle"
    /\ events < MaxEvents
    /\ \E r \in {unwind_python_stack(global_state, err_symbol, e)} :
        /\ global_state' = r.state
        /\ err_symbol' = r.err
        /\ out' = r.emitted
        /\ pc' = r.next
    /\ ev' = e
    /\ events' = events + 1
    /\ UNCHANGED <<stack_traces, heap, other, probe>>

\* Lines 463-476: bpf_map_update_elem(&stack_traces, &stack_hash, &stack, BPF_ANY).
UpdateStackTraces(traces, stack_hash, stack, e) ==
    IF e.map_fail THEN traces
    ELSE [k \in DOMAIN traces \cup {stack_hash} |->
             IF k = stack_hash THEN stack ELSE traces[k]]

\* Variant of RecordStackId: a failed update of stack_traces ends the program.
RecordStackId_UnlessUpdateFailed(h, stack_hash, update_failed) ==
    IF update_failed THEN h ELSE [h EXCEPT !.interpreter_stack_id = stack_hash]

\* Lines 468-476: the result of bpf_map_update_elem is only logged; the hash
\* is stored as the interpreter_stack_id of the unwind state either way.
RecordStackId(h, stack_hash, update_failed) ==
    [h EXCEPT !.interpreter_stack_id = stack_hash]

\* Variants of Submits: a walk that runs out of budget returns without
\* submitting; every invocation submits, also one that tail-calls.
Submits_NotTruncated(exit) == exit \in {"complete", "tail_call_failed"}
Submits_EveryInvocation(exit) == TRUE

\* The invocations that reach the submit label.
Submits(exit) == exit \in {"complete", "truncated", "tail_call_failed"}

\* One invocation of walk_python_stack, entered by tail call.
Walker ==
    /\ pc = "walker"
    /\ \E r \in {walk_python_stack(global_state, ev)} :
       LET stack_hash == hash_stack(r.state.sample.stack) IN
        /\ global_state' = r.state
        /\ IF Submits(r.exit)
           THEN /\ stack_traces' = UpdateStackTraces(stack_traces, stack_hash,
                                                     r.state.sample.stack, ev)
                /\ heap' = RecordStackId(heap, stack_hash, ev.map_fail)
                /\ out' = [out EXCEPT !.aggregate_stacks = @ + 1, !.updates = @ + 1,
                                      !.walker_runs = @ + 1,
                                      !.tail_call_failed = (r.exit = "tail_call_failed")]
           ELSE /\ out' = [out EXCEPT !.walker_runs = @ + 1]
                /\ UNCHANGED <<stack_traces, heap>>
        /\ pc' = IF r.exit = "tail_call" THEN "walker" ELSE "idle"
    /\ UNCHANGED <<err_symbol, ev, events, other, probe>>

Next ==
    \/ \E e \in Events : PerfEvent(e)
    \/ Walker

Spec == Init /\ [][Next]_vars

\* The final state of the walker chain started in state s, within n invocations.
RECURSIVE RunWalker(_, _, _)
RunWalker(s, e, n) ==
    With(walk_python_stack(s, e), LAMBDA r :
        IF r.exit = "tail_call" /\ n > 1 THEN RunWalker(r.state, e, n - 1) ELSE r.state)

\* What an event leaves in a State that held nothing before.
FreshRun(e) ==
    With(unwind_python_stack(ZeroState, "", e), LAMBDA r :
        IF r.next = "walker"
        THEN RunWalker(r.state, e, PYTHON_STACK_PROG_CNT + 1)
        ELSE r.state)

\* A State as an earlier event leaves it: a full stack, the budget spent and
\* the cursor on an unwalked frame.
UsedState ==
    FreshRun(Event(1, Tid(1), "none", MAX_STACK_DEPTH + 1, 0, 0, "none",
                   NoTailCallFails, FALSE))

\* One perf event on a CPU whose State is fresh or used, with the tail call
\* transferring control at once: a pending walker invocation runs.
InitOneEvent ==
    /\ global_state \in {ZeroState, UsedState}
    /\ stack_traces = << >>
    /\ heap = [interpreter_stack_id |-> 0]
    /\ err_symbol = ""
    /\ pc = "idle"
    /\ ev = NoEvent
    /\ out = NoOutput
    /\ events = MaxEvents - 1
    /\ other = IdleCpu
    /\ probe = NoProbe

FairSpec == InitOneEvent /\ [][Next]_vars /\ WF_vars(Walker)

-----------------------------------------------------------------------------
(* Properties *)

Min(a, b) == IF a < b THEN a ELSE b

Sample == global_state.sample

\* The walker chain of the current event has ended at the submit label.
Published == pc = "idle" /\ out.handed_off /\ out.updates = 1

\* Every read of the event's image succeeds, the chain ends in a NULL f_back
\* and no frame is owned by the C stack.
SoundChain(e) == e.p1 = "none" /\ e.dkind = "none" /\ e.tail = 0

LenAndStatusFollowLength ==
    /\ Sample.stack.len = Min(ev.L, MAX_STACK_DEPTH)
    /\ Sample.stack_status =
           IF ev.L <= MAX_STACK_DEPTH THEN STACK_COMPLETE ELSE STACK_TRUNCATED

C2_LenBounded ==
    /\ Sample.stack.len >= 0
    /\ Sample.stack.len <= MAX_STACK_DEPTH
    /\ \A h \in DOMAIN stack_traces :
           stack_traces[h].len >= 0 /\ stack_traces[h].len <= MAX_STACK_DEPTH

\* A full stack has been stored for a chain longer than the budget.
C2_Witness ==
    /\ Published /\ ev.L > MAX_STACK_DEPTH
    /\ Sample.stack.len = MAX_STACK_DEPTH
    /\ \E h \in DOMAIN stack_traces : stack_traces[h].len = MAX_STACK_DEPTH

\* C3: the tail-call counter never exceeds PYTHON_STACK_PROG_CNT, the walker
\* runs at most that often per event, and no invocation is pending once the
\* counter has reached PYTHON_STACK_PROG_CNT.
C3_CallCountBounded ==
    /\ global_state.stack_walker_prog_call_count <= PYTHON_STACK_PROG_CNT
    /\ out.walker_runs <= PYTHON_STACK_PROG_CNT
    /\ pc = "walker" => global_state.stack_walker_prog_call_count < PYTHON_STACK_PROG_CNT

\* The budget has been spent on a chain that did not end.
C3_Witness ==
    /\ pc = "idle" /\ out.walker_runs = PYTHON_STACK_PROG_CNT
    /\ global_state.stack_walker_prog_call_count = PYTHON_STACK_PROG_CNT
    /\ global_state.frame_ptr # 0

\* The sample's stack is in stack_traces under the recorded hash.
Stored ==
    /\ heap.interpreter_stack_id \in DOMAIN stack_traces
    /\ stack_traces[heap.interpreter_stack_id] = Sample.stack

\* The walker runs at most PYTHON_STACK_PROG_CNT times per event, and when the
\* walk of a handed-off event has ended, bpf_map_update_elem and
\* aggregate_stacks() have been called exactly once each.
C4_Safe ==
    /\ out.aggregate_stacks <= 1
    /\ out.updates <= 1
    /\ out.walker_runs <= PYTHON_STACK_PROG_CNT
    /\ (pc = "idle" /\ out.handed_off) => (out.aggregate_stacks = 1 /\ out.updates = 1)

\* C4, as stated: an event handed to the walker is never abandoned. The walker
\* chain ends after at most PYTHON_STACK_PROG_CNT invocations, and when it has
\* ended the stack is in stack_traces and aggregate_stacks() has been called
\* exactly once.
C4_HandedOffIsStored ==
    /\ [](C4_Safe /\ ((pc = "idle" /\ out.handed_off) => Stored))
    /\ (pc = "walker") ~> (Published /\ Stored)

\* C4, amended: the same, the stack being in stack_traces when the one update
\* of the map has not failed.
C4_HandedOffIsPublished ==
    /\ [](C4_Safe /\ ((pc = "idle" /\ out.handed_off /\ ~ev.map_fail) => Stored))
    /\ (pc = "walker") ~> Published

\* A chain that loops back on itself has been published after the whole budget.
C4_Witness ==
    /\ Published /\ ev.tail # 0
    /\ out.aggregate_stacks = 1
    /\ out.walker_runs = PYTHON_STACK_PROG_CNT
    /\ Stored

\* What the image holds for frame k: its symbol and its encoding.
ExpectedSymbol(k) ==
    IF Fn(k) = 1 THEN [class_name |-> "", method_name |-> "a", path |-> "app.py"]
    ELSE IF Fn(k) = 2 THEN [class_name |-> "Foo", method_name |-> "bar", path |-> "app.py"]
    ELSE [class_name |-> "Baz", method_name |-> "qux", path |-> "app.py"]

Enc(k) == <<Lineno(k), get_symbol_id(ExpectedSymbol(k))>>

Entries == {i \in 0..(MAX_STACK_DEPTH - 1) : i < Sample.stack.len}

\* The frame reached from the top frame by following f_back i times, in an
\* image all of whose reads succeed.
Visited(e, i) == IF e.tail = 0 THEN i + 1 ELSE (i % e.L) + 1

\* C5: at every moment of a walk the stack holds the frames in chain order
\* from the top frame on, each entry being (lineno << 32) | symbol_id of its
\* frame: when every read succeeds entry i is the frame i links of f_back
\* below the top, and of any chain that ends the entries are frames of the
\* chain of increasing depth, so no frame has two entries.
C5_ChainOrder ==
    out.handed_off =>
        /\ (ev.p1 = "none" /\ ev.dkind = "none") =>
               \A i \in Entries : Sample.stack.addresses[i] = Enc(Visited(ev, i))
        /\ ev.tail = 0 =>
               /\ \A i \in Entries : \E k \in 1..ev.L : Sample.stack.addresses[i] = Enc(k)
               /\ \A i, j \in Entries :
                      i < j => Sample.stack.addresses[i][1] < Sample.stack.addresses[j][1]

\* a calls b calls c, c on top: the stack is [enc(c), enc(b), enc(a)].
C5_Witness ==
    /\ Published /\ SoundChain(ev) /\ ev.L = 3 /\ ev.pid = 1
    /\ Sample.stack.len = 3
    /\ Sample.stack.addresses[0] = Enc(1)
    /\ Sample.stack.addresses[1] = Enc(2)
    /\ Sample.stack.addresses[2] = Enc(3)
    /\ Sample.stack_status = STACK_COMPLETE

\* The frame the last entry of the stack was made from.
LastAppended == (Sample.stack.addresses[Sample.stack.len - 1][1] - Lineno(0))

FBackOf(e, frame) ==
    bpf_probe_read_user(e, frame + version_specific_offsets[VerOf(e.pid)]
                                       .py_frame_object.f_back).val

OwnedByCStack(e, frame) ==
    LET O == version_specific_offsets[VerOf(e.pid)].py_interpreter_frame IN
    /\ O.owner # -1
    /\ bpf_probe_read_user(e, frame + O.owner).val = FRAME_OWNED_BY_CSTACK

\* The walk has reached the end of the chain: the last appended frame has no
\* f_back, or its f_back is a frame owned by the C stack that has none.
ChainEnded ==
    /\ Sample.stack.len > 0
    /\ LET next == FBackOf(ev, FrameAddr(LastAppended)) IN
        \/ next = 0
        \/ OwnedByCStack(ev, next) /\ FBackOf(ev, next) = 0

\* C6: a sample published as complete has reached the end of the chain, and
\* State.frame_ptr does not point at an unwalked frame. Stated for the chains
\* all of whose reads succeed, where "the end of the chain" is beyond doubt.
C6_CompleteMeansChainEnded ==
    (Published /\ SoundChain(ev) /\ Sample.stack_status = STACK_COMPLETE) =>
        (global_state.frame_ptr = 0 /\ ChainEnded)

\* C7: what an event leaves in State, and so the sample it publishes, is what
\* it would leave in a State that held nothing before; pid and tid are the
\* event's from the moment P1 has stamped them.
C7_NoBleedAcrossEvents ==
    /\ (out.handed_off \/ out.aggregate_stacks > 0) =>
           (Sample.pid = ev.pid /\ Sample.tid = ev.tid)
    /\ (pc = "idle" /\ events > 0 /\ ev.pid \in DOMAIN pid_to_interpreter_info) =>
           global_state = FreshRun(ev)

\* A second event has published a one-frame stack after a first one that
\* stored a full stack.
C7_Witness ==
    /\ events = 2 /\ Published
    /\ Sample.stack.len = 1
    /\ \E h \in DOMAIN stack_traces : stack_traces[h].len = MAX_STACK_DEPTH

\* C8: P1 and a walker invocation that tail-calls leave stack_traces and
\* interpreter_stack_id alone; they are written only by the invocation that
\* ends the walk, with the stack and hash of the State it leaves.
C8_Step ==
    /\ (pc = "idle" \/ pc' = "walker") =>
           (stack_traces' = stack_traces /\ heap' = heap)
    /\ (stack_traces' # stack_traces \/ heap' # heap) =>
           /\ pc = "walker" /\ pc' = "idle"
           /\ heap'.interpreter_stack_id = hash_stack(global_state'.sample.stack)
           /\ stack_traces' # stack_traces =>
                  stack_traces'[heap'.interpreter_stack_id] = global_state'.sample.stack

C8_PublishedOnlyAtEnd == [][C8_Step]_vars

\* Mid-walk: frames gathered, a tail call pending, nothing visible.
C8_Witness ==
    /\ pc = "walker" /\ out.walker_runs >= 1
    /\ Sample.stack.len > 0
    /\ stack_traces = << >>
    /\ heap.interpreter_stack_id = 0

\* The thread state P1's resolution step ends with, when no read of the step
\* has failed: [resolved, thread_state].
ResolvedThreadState(e) ==
    LET info == pid_to_interpreter_info[e.pid]
        s0 == ResetState(ZeroState, info, e.pid, e.tid)
        r1 == FetchThreadStateDirect(s0, info, e)
        r2 == IF r1.exit = "continue" THEN FetchThreadStateTls(r1.state, info, e) ELSE r1
    IN [resolved |-> r2.exit = "continue" \/ r2.msg = "thread_state was NULL",
        thread_state |-> r2.state.thread_state]

\* C9: a thread state that resolves to zero makes P1 publish the error
\* "thread_state was NULL", without a tail call and without a stored stack.
C9_NullThreadStateIsReported ==
    (/\ pc = "idle" /\ events > 0
     /\ ev.pid \in DOMAIN pid_to_interpreter_info
     /\ ResolvedThreadState(ev).resolved
     /\ ResolvedThreadState(ev).thread_state = 0)
    => /\ err_symbol = "thread_state was NULL"
       /\ out.aggregate_stacks = 1
       /\ ~out.handed_off
       /\ out.updates = 0

\* C10: an event of a process without interpreter info sets the message
\* "interpreter_info was NULL" and emits the error sample; State is left as it
\* was, the walker is not entered and stack_traces is not written.
C10_Step ==
    (/\ pc = "idle" /\ events' = events + 1
     /\ ev'.pid # 0
     /\ ev'.pid \notin DOMAIN pid_to_interpreter_info)
    => /\ global_state' = global_state
       /\ err_symbol' = "interpreter_info was NULL"
       /\ out'.error_sample = "interpreter_info was NULL"
       /\ out'.aggregate_stacks = 0
       /\ ~out'.handed_off
       /\ pc' = "idle"
       /\ stack_traces' = stack_traces
       /\ heap' = heap

C10_MissingInfoIsReported == [][C10_Step]_vars

\* The error sample has been emitted over a State that still holds the stack
\* of the event before.
C10_Witness ==
    /\ pc = "idle" /\ events = 2
    /\ ev.pid \notin DOMAIN pid_to_interpreter_info /\ ev.pid # 0
    /\ out.error_sample = "interpreter_info was NULL"
    /\ Sample.stack.len > 0

-----------------------------------------------------------------------------
(* Errors of P1 *)

\* P1 has run for the current event, of a process with interpreter info.
AfterP1 ==
    /\ events > 0
    /\ out.walker_runs = 0
    /\ ev.pid \in DOMAIN pid_to_interpreter_info

InfoOf(e) == pid_to_interpreter_info[e.pid]

\* version_specific_offsets has no entry for the process.
NoVersionOffsets(e) ==
    InfoOf(e).py_version_index \notin DOMAIN version_specific_offsets

\* The libc offsets map P1 consults for the process has no entry for it.
NoLibcOffsets(e) ==
    /\ InfoOf(e).use_tls
    /\ \/ /\ InfoOf(e).libc_implementation = LIBC_IMPLEMENTATION_GLIBC
          /\ InfoOf(e).libc_offset_index \notin DOMAIN glibc_offsets
       \/ /\ InfoOf(e).libc_implementation = LIBC_IMPLEMENTATION_MUSL
          /\ InfoOf(e).libc_offset_index \notin DOMAIN musl_offsets

\* The aggregator or the error-sample path has been reached for the event.
Reported == out.aggregate_stacks > 0 \/ out.error_sample # ""

\* C11: without offsets for the process's py_version_index, or without libc
\* offsets for its libc_offset_index, P1 reports an error (the aggregator or
\* the error-sample path is reached) and no stack is walked or published.
C11_MissingOffsetsAreReported ==
    (AfterP1 /\ (NoVersionOffsets(ev) \/ NoLibcOffsets(ev))) =>
        /\ Reported
        /\ ~out.handed_off
        /\ out.updates = 0

\* The message of the first failure on P1's path through the image of event e:
\* a read that fails, or a thread state (TLS path), cframe or frame pointer that
\* is zero; "" when there is none.
DefectMsg(e) ==
    LET direct == InfoOf(e).thread_state_addr # 0
        tls == InfoOf(e).use_tls
        tlsReads == /\ InfoOf(e).use_tls
                    /\ ~NoLibcOffsets(e)
                    /\ InfoOf(e).libc_implementation
                           \in {LIBC_IMPLEMENTATION_GLIBC, LIBC_IMPLEMENTATION_MUSL}
        layout == version_specific_offsets[VerOf(e.pid)].py_thread_state
    IN
    IF direct /\ e.p1 = "tsa_unreadable" THEN "failed read of thread_state_addr"
    ELSE IF tlsReads /\ (e.p1 = "tls_unreadable"
                         \/ (e.p1 = "musl_block_unreadable" /\ IsMusl(e.pid)))
    THEN "failed read of TLS"
    ELSE IF tlsReads /\ e.p1 = "tls_null" THEN "thread_state was NULL"
    ELSE IF tls /\ ~tlsReads THEN ""
    ELSE IF NoVersionOffsets(e) THEN ""
    ELSE IF e.p1 = "tid_unreadable" \/ (~tls /\ (~direct \/ e.p1 = "tsa_null"))
    THEN "failed read of thread_state->thread_id"
    ELSE IF layout.frame > -1
    THEN IF e.p1 = "frame_unreadable" THEN "failed read of thread_state->frame"
         ELSE IF e.p1 = "frame_null" THEN "frame_ptr was NULL"
         ELSE ""
    ELSE IF e.p1 = "cframe_unreadable" THEN "failed read of thread_state->cframe"
    ELSE IF e.p1 = "cframe_null" THEN "cframe was NULL"
    ELSE IF e.p1 \in {"frame_unreadable", "frame_null"} THEN "frame_ptr was NULL"
    ELSE ""

\* C12: whenever a user-memory read of P1 fails, or the thread state (TLS
\* path), the cframe or the frame pointer is zero, P1 sets the error message,
\* signals the aggregator and does not tail-call the walker; and whenever P1
\* tail-calls the walker, State.frame_ptr is not zero.
C12_P1FinalizesItsErrors ==
    /\ (AfterP1 /\ DefectMsg(ev) # "") =>
           /\ err_symbol = DefectMsg(ev)
           /\ out.aggregate_stacks = 1
           /\ out.error_sample = ""
           /\ ~out.handed_off
           /\ pc = "idle"
    /\ (out.handed_off /\ out.walker_runs = 0) =>
           /\ pc = "walker"
           /\ global_state.frame_ptr # 0

\* P1 has reported the failed, unchecked read of cframe->current_frame.
C12_Witness ==
    /\ AfterP1
    /\ VerOf(ev.pid) = 1
    /\ ev.p1 = "frame_unreadable"
    /\ err_symbol = "frame_ptr was NULL"
    /\ out.aggregate_stacks = 1
    /\ ~out.handed_off

-----------------------------------------------------------------------------
(* The same perf event twice *)

\* The sampled thread sits on the same frame chain at two consecutive perf
\* events: the second event finds the image, and meets the helper outcomes,
\* of the first.
RepeatNext ==
    \/ \E e \in Events : (events = 0 \/ e = ev) /\ PerfEvent(e)
    \/ Walker

RepeatSpec == Init /\ [][RepeatNext]_vars

\* The step is an invocation of the walker that reaches the submit label.
Publishes == out'.updates = out.updates + 1

C13_Step ==
    Publishes =>
        /\ global_state'.sample.stack = FreshRun(ev).sample.stack
        /\ heap'.interpreter_stack_id = hash_stack(global_state'.sample.stack)
        /\ events = MaxEvents =>
              /\ heap'.interpreter_stack_id = heap.interpreter_stack_id
              /\ stack_traces' = stack_traces
              /\ ~ev.map_fail =>
                    /\ DOMAIN stack_traces = {heap.interpreter_stack_id}
                    /\ stack_traces[heap.interpreter_stack_id] = global_state'.sample.stack

\* C13: publication is deterministic and idempotent. Two consecutive perf
\* events on the same frame chain publish the same frame encodings and the
\* same stack_hash, and the second publication leaves stack_traces as the
\* first left it: its single entry is overwritten with an equal value.
C13_RepeatedEventRepublishes == [][C13_Step]_vars

\* The second of two events on a chain of several invocations has published
\* over the entry of the first.
C13_Witness ==
    /\ events = MaxEvents
    /\ Published
    /\ out.walker_runs > 1
    /\ Sample.stack.len > PYTHON_STACK_FRAMES_PER_PROG
    /\ DOMAIN stack_traces = {heap.interpreter_stack_id}
    /\ stack_traces[heap.interpreter_stack_id] = Sample.stack

-----------------------------------------------------------------------------
(* Frames owned by the C stack *)

\* The layout of the process has an owner tag in its frames.
HasOwnerTag(e) ==
    version_specific_offsets[VerOf(e.pid)].py_interpreter_frame.owner # -1

\* The chain of the event ends, all its reads succeed, and frame dpos, which is
\* not the last one, carries the tag FRAME_OWNED_BY_CSTACK.
CStackFrameInChain(e) ==
    /\ e.p1 = "none"
    /\ e.tail = 0
    /\ e.dkind = "cstack"
    /\ e.dpos < e.L

\* The frame of entry i when frame p has no entry.
SkipOver(p, i) == IF i + 1 < p THEN i + 1 ELSE i + 2

\* C14: with an owner offset other than -1, a visited frame tagged
\* FRAME_OWNED_BY_CSTACK gets no stack entry: the walker follows its f_back
\* once, appends that next frame instead and goes on from that frame's f_back,
\* so a C-stack-owned top frame followed by two interpreter frames is published
\* with len = 2. With an owner offset of -1 no frame is skipped.
C14_CStackFrameIsSkipped ==
    (Published /\ CStackFrameInChain(ev) /\ ~out.tail_call_failed) =>
        IF HasOwnerTag(ev)
        THEN /\ Sample.stack.len = Min(ev.L - 1, MAX_STACK_DEPTH)
             /\ \A i \in Entries : Sample.stack.addresses[i] = Enc(SkipOver(ev.dpos, i))
             /\ Sample.stack_status = IF ev.L - 1 <= MAX_STACK_DEPTH
                                      THEN STACK_COMPLETE ELSE STACK_TRUNCATED
        ELSE /\ Sample.stack.len = Min(ev.L, MAX_STACK_DEPTH)
             /\ \A i \in Entries : Sample.stack.addresses[i] = Enc(i + 1)

\* A C-stack-owned top frame followed by two interpreter frames: len = 2.
C14_Witness ==
    /\ Published
    /\ CStackFrameInChain(ev)
    /\ HasOwnerTag(ev)
    /\ ev.dpos = 1
    /\ ev.L = 3
    /\ Sample.stack.len = 2
    /\ Sample.stack.addresses[0] = Enc(2)
    /\ Sample.stack.addresses[1] = Enc(3)

-----------------------------------------------------------------------------
(* Two CPUs *)

\* Variant of PerCpuLookup: global_state is a plain array, one State for all
\* CPUs.
PerCpuLookup_Shared(own, foreign) == foreign

\* Lines 66-71 and 79-83: global_state is a BPF_MAP_TYPE_PERCPU_ARRAY, so the
\* lookup of GET_STATE() yields the State of the CPU the program runs on.
PerCpuLookup(own, foreign) == own

\* The events delivered while two CPUs sample at the same time: chains of
\* one to four invocations' worth of frames in both layouts, a chain with a
\* C-stack-owned frame, and a thread whose top frame is NULL.
SmpEvents ==
    {Event(pid, Tid(pid), "none", L, 0, 0, "none", NoTailCallFails, FALSE) :
        pid \in WalkPids, L \in {1, MaxDefChain, MaxChain}}
    \cup {Event(2, Tid(2), "none", MaxDefChain, 0, 1, "cstack", NoTailCallFails, FALSE),
          Event(1, Tid(1), "frame_null", 2, 0, 0, "none", NoTailCallFails, FALSE)}

\* P1 on the second CPU.
PerfEventOnOther(e) ==
    /\ other.pc = "idle"
    /\ other.events < MaxEvents
    /\ \E r \in {unwind_python_stack(PerCpuLookup(other.global_state, global_state),
                                     other.err_symbol, e)} :
        other' = [other EXCEPT !.global_state = r.state,
                               !.err_symbol = r.err,
                               !.out = r.emitted,
                               !.pc = r.next,
                               !.ev = e,
                               !.events = @ + 1]
    /\ UNCHANGED <<global_state, stack_traces, heap, err_symbol, pc, ev, out, events,
                   probe>>

\* One invocation of walk_python_stack on the second CPU.
WalkerOnOther ==
    /\ other.pc = "walker"
    /\ \E r \in {walk_python_stack(PerCpuLookup(other.global_state, global_state),
                                   other.ev)} :
       LET stack_hash == hash_stack(r.state.sample.stack) IN
        IF Submits(r.exit)
        THEN /\ stack_traces' = UpdateStackTraces(stack_traces, stack_hash,
                                                  r.state.sample.stack, other.ev)
             /\ other' = [other EXCEPT
                            !.global_state = r.state,
                            !.heap = RecordStackId(@, stack_hash, other.ev.map_fail),
                            !.out.aggregate_stacks = @ + 1,
                            !.out.updates = @ + 1,
                            !.out.walker_runs = @ + 1,
                            !.out.tail_call_failed = (r.exit = "tail_call_failed"),
                            !.pc = "idle"]
        ELSE /\ other' = [other EXCEPT
                            !.global_state = r.state,
                            !.out.walker_runs = @ + 1,
                            !.pc = IF r.exit = "tail_call" THEN "walker" ELSE "idle"]
             /\ UNCHANGED stack_traces
    /\ UNCHANGED <<global_state, heap, err_symbol, pc, ev, out, events, probe>>

SmpNext ==
    \/ \E e \in SmpEvents : PerfEvent(e)
    \/ Walker
    \/ \E e \in SmpEvents : PerfEventOnOther(e)
    \/ WalkerOnOther

SmpSpec == Init /\ [][SmpNext]_vars

\* The event e of a CPU has been published from the State s and heap h of
\* that CPU as e is published when it runs alone.
AsAlone(s, h, e) ==
    /\ s.sample.stack = FreshRun(e).sample.stack
    /\ s.sample.stack_status = FreshRun(e).sample.stack_status
    /\ h.interpreter_stack_id = hash_stack(FreshRun(e).sample.stack)

PublishedOnOther ==
    other.pc = "idle" /\ other.out.handed_off /\ other.out.updates = 1

C15_Inv ==
    /\ Published => AsAlone(global_state, heap, ev)
    /\ PublishedOnOther => AsAlone(other.global_state, other.heap, other.ev)
    /\ \A k \in DOMAIN stack_traces : hash_stack(stack_traces[k]) = k

C15_Step ==
    \/ other' = other
    \/ UNCHANGED <<global_state, heap, err_symbol, pc, ev, out, events>>

\* C15: under any interleaving of P1 and walker invocations that run for
\* different events on different CPUs, a step of one CPU leaves the State (and
\* the other per-CPU data) of the other CPU alone, every event publishes the
\* stack_hash, stack and stack_status it publishes when it runs alone, and
\* every entry of the shared stack_traces maps a key to a stack whose
\* hash_stack is that key.
C15_CpusDoNotInterfere == []C15_Inv /\ [][C15_Step]_vars

\* Both CPUs have published, each its own event, while the other one walked.
C15_Witness ==
    /\ Published
    /\ PublishedOnOther
    /\ ev.pid # other.ev.pid
    /\ out.walker_runs = PYTHON_STACK_PROG_CNT
    /\ other.out.walker_runs > 1
    /\ Sample.stack # other.global_state.sample.stack
    /\ Cardinality(DOMAIN stack_traces) > 1

-----------------------------------------------------------------------------
(* A failed update of stack_traces *)

\* The event in progress without the failure of bpf_map_update_elem.
UpdateSucceeds(e) == [e EXCEPT !.map_fail = FALSE]

C16_Step ==
    (Publishes /\ ev.map_fail) =>
        /\ stack_traces' = stack_traces
        /\ heap'.interpreter_stack_id = hash_stack(global_state'.sample.stack)
        /\ out'.aggregate_stacks = out.aggregate_stacks + 1
        /\ pc' = "idle"
        /\ global_state' = walk_python_stack(global_state, UpdateSucceeds(ev)).state
        /\ global_state'.sample = FreshRun(UpdateSucceeds(ev)).sample

\* C16: a failed update of stack_traces at publication is not fatal. The
\* walker still stores stack_hash as the interpreter_stack_id of the unwind
\* state and still signals the aggregator, and the per-CPU sample (stack, len,
\* stack_status) is what it is without the failure.
C16_FailedUpdateIsNotFatal == [][C16_Step]_vars

\* A walk has been handed to the aggregator although its stack could not be
\* stored.
C16_Witness ==
    /\ Published
    /\ ev.map_fail
    /\ Sample.stack.len > 1
    /\ heap.interpreter_stack_id = hash_stack(Sample.stack)
    /\ heap.interpreter_stack_id \notin DOMAIN stack_traces
    /\ out.aggregate_stacks = 1

-----------------------------------------------------------------------------
(* Walks that stop inside the loop *)

\* The chain of the event ends with a frame owned by the C stack: the last
\* frame carries the tag and its f_back is zero.
EndsWithCStackFrame(e) ==
    /\ e.p1 = "none"
    /\ e.tail = 0
    /\ e.dkind = "cstack"
    /\ e.dpos = e.L
    /\ HasOwnerTag(e)

\* The invocation of the walker that meets frame k of a chain whose frames
\* before k are appended one per iteration.
InvocationOf(k) == ((k - 1) \div PYTHON_STACK_FRAMES_PER_PROG) + 1

\* C17: when the walker reaches a C-stack-owned frame whose f_back is zero, the
\* walk ends there: the walker is not invoked again on that frame and the
\* sample is published with stack_status = complete and the frames appended
\* before that frame.
C17_CStackTailEndsWalk ==
    (Published /\ EndsWithCStackFrame(ev) /\ ~out.tail_call_failed) =>
        /\ Sample.stack_status = STACK_COMPLETE
        /\ Sample.stack.len = ev.L - 1
        /\ \A i \in Entries : Sample.stack.addresses[i] = Enc(i + 1)
        /\ out.walker_runs = InvocationOf(ev.L)

\* The read of f_code of frame dpos fails or yields a zero code pointer.
CodeOfFrameMissing(e) ==
    /\ e.p1 = "none"
    /\ e.tail = 0
    /\ e.dkind \in {"code_unreadable", "code_null"}

\* C18: when the read of a frame's f_code fails or yields zero, the walker
\* leaves the loop and takes the complete branch: the sample is published with
\* stack_status = complete and exactly the frames appended before the failure,
\* without further invocations of the walker on that frame.
C18_MissingCodeCompletesWalk ==
    (Published /\ CodeOfFrameMissing(ev) /\ ~out.tail_call_failed) =>
        /\ Sample.stack_status = STACK_COMPLETE
        /\ Sample.stack.len = ev.dpos - 1
        /\ \A i \in Entries : Sample.stack.addresses[i] = Enc(i + 1)
        /\ out.walker_runs = InvocationOf(ev.dpos)

-----------------------------------------------------------------------------
(* Resolution of the thread state *)

\* The process has a thread_state_addr, and the word stored there is readable
\* and not zero; the TLS slot may be in any condition.
DirectReadSucceeds(e) ==
    /\ e.pid \in DOMAIN pid_to_interpreter_info
    /\ InfoOf(e).thread_state_addr # 0
    /\ ~NoVersionOffsets(e)
    /\ e.p1 \in {"none", "tls_unreadable", "tls_null", "musl_block_unreadable"}

\* C19: thread-state resolution is exclusive. With thread_state_addr != 0 the
\* thread state of the walk is the word read at thread_state_addr, and TLS is
\* consulted only with thread_state_addr = 0 and use_tls set: with both set,
\* the TLS lookup neither replaces the thread state read directly nor turns a
\* successful direct read into an error.
C19_DirectReadWins ==
    (events > 0 /\ DirectReadSucceeds(ev)) =>
        /\ global_state.thread_state = Addr.ts_direct
        /\ out.handed_off \/ out.tail_call_failed

-----------------------------------------------------------------------------
(* tls_read on its own *)

MaxKey == 2     \* largest pthread key tried

TlsBases == {64, 72}

\* Inputs of tls_read: the build, the interpreter info, the TLS base, and the
\* probe read that faults, if any ("block": the thread's block pointer, "slot":
\* the key's slot).
TlsInputs ==
    [arch : {"x86", "arm64"},
     libc : {LIBC_IMPLEMENTATION_GLIBC, LIBC_IMPLEMENTATION_MUSL, 2},
     key : 0..MaxKey,
     idx : {0, 9},
     tls_base : TlsBases,
     bad : {"none", "block", "slot"}]

\* The word stored at user address a: a different one at every address.
WordAt(a) == 1000 + 3 * a

\* The libc offsets that belong to an input with a known libc and index.
OffsetsOf(in) ==
    IF in.libc = LIBC_IMPLEMENTATION_MUSL THEN musl_offsets[in.idx]
    ELSE glibc_offsets[in.idx]

\* TLS base of the thread as the libc of the architecture lays it out.
BaseOf(in) ==
    IF in.arch = "x86" THEN in.tls_base
    ELSE in.tls_base - OffsetsOf(in).pthread_size

\* musl: the address that holds the pointer to the thread's key table.
BlockAddr(in) == BaseOf(in) + OffsetsOf(in).pthread_block

\* The address of the slot of the key.
SlotAddr(in) ==
    IF in.libc = LIBC_IMPLEMENTATION_MUSL
    THEN WordAt(BlockAddr(in)) + in.key * OffsetsOf(in).pthread_key_data_size
    ELSE BaseOf(in) + OffsetsOf(in).pthread_block
         + in.key * OffsetsOf(in).pthread_key_data_size
         + OffsetsOf(in).pthread_key_data

KnownLibc(in) ==
    /\ in.libc \in {LIBC_IMPLEMENTATION_GLIBC, LIBC_IMPLEMENTATION_MUSL}
    /\ in.idx \in DOMAIN (IF in.libc = LIBC_IMPLEMENTATION_MUSL
                          THEN musl_offsets ELSE glibc_offsets)

\* The user memory tls_read probes for an input.
TlsMem(in, a) ==
    IF ~KnownLibc(in) THEN Ok(WordAt(a))
    ELSE IF in.bad = "block" /\ a = BlockAddr(in) THEN Fault
    ELSE IF in.bad = "slot" /\ a = SlotAddr(in) THEN Fault
    ELSE Ok(WordAt(a))

TlsInit ==
    /\ global_state = ZeroState
    /\ stack_traces = << >>
    /\ heap = [interpreter_stack_id |-> 0]
    /\ err_symbol = ""
    /\ pc = "idle"
    /\ ev = NoEvent
    /\ out = NoOutput
    /\ events = 0
    /\ other = IdleCpu
    /\ probe \in {[done |-> FALSE, in |-> in, res |-> << >>] : in \in TlsInputs}

\* tls_read is called with the input.
TlsRead ==
    /\ ~probe.done
    /\ \E r \in {tls_read_on(probe.in.arch, [a \in Int |-> TlsMem(probe.in, a)],
                             probe.in.tls_base,
                             InterpreterInfo(0, TRUE, probe.in.key, 0, probe.in.libc,
                                             probe.in.idx))} :
        probe' = [probe EXCEPT !.done = TRUE, !.res = r]
    /\ UNCHANGED <<global_state, stack_traces, heap, err_symbol, pc, ev, out, events,
                   other>>

TlsNext == TlsRead

TlsSpec == TlsInit /\ [][TlsNext]_vars

\* tls_read has returned for an input.
TlsReturned == probe.done /\ probe # NoProbe

\* tls_read has stored the word of the slot and returned success, or has
\* failed because the slot is unreadable; reads are the probes it has made.
SlotRead(in, res, reads) ==
    /\ res.reads = reads
    /\ IF in.bad = "slot"
       THEN res.ret = -1
       ELSE /\ res.ret = 0
            /\ res.set
            /\ res.val = WordAt(SlotAddr(in))

\* C20: tls_read yields the word stored at the slot of the libc. For glibc the
\* slot is at base + pthread_block + key * pthread_key_data_size +
\* pthread_key_data and is the only address read; for musl it is at
\* P + key * pthread_key_data_size, P being the pointer read at
\* base + pthread_block, which is the one additional read; base is tls_base on
\* x86-64 and tls_base - pthread_size on aarch64. For an unknown
\* libc_implementation it returns an error and reads nothing.
C20_TlsReadReadsTheSlot ==
    TlsReturned =>
        IF probe.in.libc \notin {LIBC_IMPLEMENTATION_GLIBC, LIBC_IMPLEMENTATION_MUSL}
        THEN /\ probe.res.ret = -1
             /\ ~probe.res.set
             /\ probe.res.reads = << >>
        ELSE IF ~KnownLibc(probe.in) THEN probe.res.ret = -1
        ELSE IF probe.in.libc = LIBC_IMPLEMENTATION_GLIBC
        THEN SlotRead(probe.in, probe.res, <<SlotAddr(probe.in)>>)
        ELSE IF probe.in.bad = "block"
        THEN /\ probe.res.ret = -1
             /\ probe.res.reads = <<BlockAddr(probe.in)>>
        ELSE SlotRead(probe.in, probe.res, <<BlockAddr(probe.in), SlotAddr(probe.in)>>)

\* musl on aarch64: the slot of key 2 has been read through the block pointer.
C20_Witness ==
    /\ TlsReturned
    /\ probe.in.arch = "arm64"
    /\ probe.in.libc = LIBC_IMPLEMENTATION_MUSL
    /\ probe.in.key = MaxKey
    /\ probe.in.idx = 0
    /\ probe.in.bad = "none"
    /\ probe.res.ret = 0
    /\ Len(probe.res.reads) = 2
    /\ probe.res.val = WordAt(WordAt(probe.in.tls_base - musl_offsets[0].pthread_size
                                     + musl_offsets[0].pthread_block)
                              + MaxKey * musl_offsets[0].pthread_key_data_size)

-----------------------------------------------------------------------------
(* Symbols that cannot be read *)

MaxSymChain == 4    \* longest chain with a defect in what read_symbol reads

\* Events on chains all of whose frames and code pointers are readable, with
\* one unreadable word among those read_symbol wants for frame dpos.
SymEvents ==
    {Event(pid, Tid(pid), "none", L, 0, p, k, NoTailCallFails, FALSE) :
        pid \in WalkPids, L \in 1..MaxSymChain, p \in 1..MaxSymChain, k \in SymDefKinds}

SymNext ==
    \/ \E e \in {x \in SymEvents : x.dpos <= x.L} : PerfEvent(e)
    \/ Walker

SymSpec == Init /\ [][SymNext]_vars

\* The read named by kind fails while read_symbol works on frame k.
SymReadFails(e, k, kind) ==
    /\ e.dkind = kind
    /\ IF kind \in {"sym_ob_item", "sym_ob_type", "sym_tp_name"}
       THEN Fn(k) = Fn(e.dpos)
       ELSE k = e.dpos

\* The reads that lead to the class name of frame k, which runs a method when
\* its first argument is self (read through ob_type) or cls.
ClassNameLost(e, k) ==
    \/ \E kind \in {"sym_co_varnames", "sym_ob_item", "sym_f_localsplus", "sym_tp_name"} :
           SymReadFails(e, k, kind)
    \/ SymReadFails(e, k, "sym_ob_type") /\ Fn(k) = 2

\* The symbol and line of frame k with the fields of the failed read empty.
BestEffortSymbol(e, k) ==
    [class_name |-> IF ClassNameLost(e, k) THEN "" ELSE ExpectedSymbol(k).class_name,
     method_name |-> IF SymReadFails(e, k, "sym_co_name") THEN ""
                     ELSE ExpectedSymbol(k).method_name,
     path |-> IF SymReadFails(e, k, "sym_co_filename") THEN ""
              ELSE ExpectedSymbol(k).path]

BestEffortLineno(e, k) ==
    IF SymReadFails(e, k, "sym_co_firstlineno") THEN 0 ELSE Lineno(k)

\* C21: symbol reading is best-effort and never aborts the walk. For a frame
\* whose f_code was read, a failure of a read inside read_symbol leaves the
\* corresponding field of the symbol empty (the line zero); the entry of the
\* frame is appended all the same while len < MAX_STACK_DEPTH and the walker
\* goes on to f_back, so every frame of the chain has its entry.
C21_SymbolsAreBestEffort ==
    (Published /\ ev.dkind \in SymDefKinds /\ ~out.tail_call_failed) =>
        /\ Sample.stack.len = Min(ev.L, MAX_STACK_DEPTH)
        /\ Sample.stack_status = IF ev.L <= MAX_STACK_DEPTH
                                 THEN STACK_COMPLETE ELSE STACK_TRUNCATED
        /\ \A i \in Entries :
               Sample.stack.addresses[i] =
                   EncodeFrame(BestEffortLineno(ev, i + 1),
                               get_symbol_id(BestEffortSymbol(ev, i + 1)))

\* Foo.bar in the middle of a chain of three, its co_name unreadable: the entry
\* is there without a method name, and the frame below it follows.
C21_Witness ==
    /\ Published
    /\ ev.dkind = "sym_co_name"
    /\ ev.dpos = 2
    /\ ev.L = 3
    /\ Sample.stack.len = 3
    /\ Sample.stack.addresses[1] =
           EncodeFrame(Lineno(2), get_symbol_id([class_name |-> "Foo", method_name |-> "",
                                                 path |-> "app.py"]))
    /\ Sample.stack.addresses[2] = Enc(3)

====
